---- MODULE Spec2Model ----
(***************************************************************************)
(* Model of scripts/build-contrib.js: the pipeline that fetches the GitHub *)
(* and GitLab contribution calendars, merges them over the trailing        *)
(* 365-day window, buckets each day into a level 0..4 and renders an SVG   *)
(* grid to public/contrib.svg.                                             *)
(*                                                                         *)
(* Time.  A Date is its time value in whole hours since 1970-01-01T00:00Z. *)
(* Every offset and every zone transition of the model is a whole number   *)
(* of hours, so the minutes of a time value never decide anything.  A      *)
(* calendar date string "YYYY-MM-DD" is the number of the UTC day.         *)
(***************************************************************************)
EXTENDS Integers, Sequences, FiniteSets, TLC

VARIABLES
    variant,     \* "env": scripts/build-contrib.js; "totals": the variant with hardcoded usernames and totals
    env,         \* process.env: GH_USERNAME, GH_PAT, GITHUB_TOKEN, GITLAB_USERNAME
    zone,        \* the process's local time zone
    today,       \* const today = new Date()
    fromDate,    \* const fromDate
    pc,          \* position of the main script / the async IIFE
    gh,          \* the fetchGitHubCalendar call: [state, status, error, result]
    gl,          \* the fetchGitLabCalendar call: [state, status, error, result]
    all,         \* the Promise.all promise: [state, reason]
    base,        \* const base (mergeCalendars mutates and returns it)
    levels,      \* const levels
    totals,      \* const totals (totals variant)
    requests,    \* the network requests issued so far
    file,        \* public/contrib.svg
    stderr,      \* what console.error logged
    exitCode     \* the process's exit status, -1 while it runs

vars == <<variant, env, zone, today, fromDate, pc, gh, gl, all, base, levels,
          totals, requests, file, stderr, exitCode>>

----------------------------------------------------------------------------
(* Bounds of the model *)

MaxTodayOffset == 2     \* today's UTC date ranges over 2026-11-06 and this many days after it
MaxCount == 4           \* computeLevels is applied to counts 0..MaxCount
MaxKeys == 4            \* computeLevels is applied to calendars of 1..MaxKeys dates
MaxFetched == 2         \* mergeCalendars is applied to fetched counts 0..MaxFetched
MaxRangeDays == 2       \* dateRangeMap is applied to dates up to this many days apart

(* Program constants *)

WindowDays == 364
HoursPerDay == 24
cell == 10
gap == 2
headerH == 26

----------------------------------------------------------------------------
(* Date: UTC and local time *)

\* the clock at startup: 2026-11-06 (UTC day 20763) and the days after it,
\* at 00h, 07h and 15h UTC
Todays ==
    { day * HoursPerDay + h : day \in 20763..(20763 + MaxTodayOffset), h \in {0, 7, 15} }

Zones == {"UTC", "Asia/Tokyo", "America/New_York"}

\* America/New_York daylight saving time, [start, end) in UTC hours:
\* 2025-03-09T07:00Z..2025-11-02T06:00Z, 2026-03-08T07:00Z..2026-11-01T06:00Z,
\* 2027-03-14T07:00Z..2027-11-07T06:00Z
DstIntervals ==
    { <<20156 * 24 + 7, 20394 * 24 + 6>>,
      <<20520 * 24 + 7, 20758 * 24 + 6>>,
      <<20891 * 24 + 7, 21129 * 24 + 6>> }

InDST(z, t) ==
    /\ z = "America/New_York"
    /\ \E i \in DstIntervals : i[1] <= t /\ t < i[2]

StdOffset(z) ==
    CASE z = "UTC" -> 0
      [] z = "Asia/Tokyo" -> 9
      [] z = "America/New_York" -> -5

\* the local offset in force at UTC time t
Offset(z, t) == StdOffset(z) + (IF InDST(z, t) THEN 1 ELSE 0)

LocalTime(z, t) == t + Offset(z, t)

\* ECMAScript UTC(t): a local time that is skipped or repeated at a transition
\* is read with the offset in force before the transition
UTCOf(z, tl) ==
    IF InDST(z, tl - StdOffset(z) - 1)
    THEN tl - StdOffset(z) - 1
    ELSE tl - StdOffset(z)

\* d.setDate(d.getDate() + k): k days later on the LOCAL calendar, same local time of day
setDate(z, d, k) == UTCOf(z, LocalTime(z, d) + HoursPerDay * k)

\* iso(d) = d.toISOString().slice(0, 10): the UTC calendar date
iso(d) == d \div HoursPerDay

\* d.getUTCDay(): 0 is Sunday; 1970-01-01 was a Thursday
getUTCDay(d) == (iso(d) + 4) % 7

----------------------------------------------------------------------------
(* Config *)

Unset == "undefined"

Falsy(v) == v \in {Unset, ""}

\* a || b
Or(a, b) == IF Falsy(a) THEN b ELSE a

GH_USERNAME == IF variant = "env" THEN env.GH_USERNAME ELSE "yannklein"

\* GITHUB_TOKEN read before GH_PAT
GH_TOKEN_GithubTokenFirst == Or(Or(env.GITHUB_TOKEN, env.GH_PAT), "")

GH_TOKEN == Or(Or(env.GH_PAT, env.GITHUB_TOKEN), "")

GITLAB_USERNAME == IF variant = "env" THEN env.GITLAB_USERNAME ELSE "yannklein"

----------------------------------------------------------------------------
(* dateRangeMap *)

\* one pass of `while (d <= to) { map[iso(d)] = 0; d.setDate(d.getDate() + 1); }`
\* on the loop's state [d, keys], keys in insertion order; once the loop has
\* ended a pass changes nothing
rangeStep(z, s, to) ==
    IF s.d <= to
    THEN [d |-> setDate(z, s.d, 1), keys |-> Append(s.keys, iso(s.d))]
    ELSE s

\* n passes of the loop: the first half's result, bound to `half`, then the rest
RECURSIVE rangeRun(_, _, _, _)
rangeRun(z, s, to, n) ==
    IF n = 0 \/ s.d > to THEN s
    ELSE IF n = 1 THEN rangeStep(z, s, to)
    ELSE CHOOSE r \in { rangeRun(z, half, to, n - n \div 2) :
                           half \in {rangeRun(z, s, to, n \div 2)} } : TRUE

\* the loop runs to its end: a pass advances d by at least 23 hours, so
\* (to - from) \div 23 + 1 passes reach d > to
dateRangeMap(z, from, to) ==
    LET passes == IF from <= to THEN (to - from) \div (HoursPerDay - 1) + 1 ELSE 0
        keys == rangeRun(z, [d |-> from, keys |-> <<>>], to, passes).keys
    IN [k \in {keys[i] : i \in 1..Len(keys)} |-> 0]

----------------------------------------------------------------------------
(* mergeCalendars *)

RECURSIVE addEntries(_, _, _)
addEntries(b, m, keys) ==
    IF keys = {} THEN b
    ELSE LET date == CHOOSE k \in keys : TRUE
             cnt == m[date]
         IN addEntries(IF date \in DOMAIN b THEN [b EXCEPT ![date] = @ + cnt] ELSE b,
                       m, keys \ {date})

\* the second loop runs over gh again
mergeCalendarsGhTwice(b, ghMap, glMap) ==
    addEntries(addEntries(b, ghMap, DOMAIN ghMap), ghMap, DOMAIN ghMap)

\* the loops without their `base[date] !== undefined` guard
RECURSIVE addEntriesNoGuard(_, _, _)
addEntriesNoGuard(b, m, keys) ==
    IF keys = {} THEN b
    ELSE LET date == CHOOSE k \in keys : TRUE
         IN addEntriesNoGuard((date :> ((IF date \in DOMAIN b THEN b[date] ELSE 0) + m[date])) @@ b,
                              m, keys \ {date})

mergeCalendarsNoGuard(b, ghMap, glMap) ==
    addEntriesNoGuard(addEntriesNoGuard(b, ghMap, DOMAIN ghMap), glMap, DOMAIN glMap)

mergeCalendars(b, ghMap, glMap) ==
    addEntries(addEntries(b, ghMap, DOMAIN ghMap), glMap, DOMAIN glMap)

\* sum = (obj) => Object.values(obj).reduce((a, b) => a + (b || 0), 0)
\* the reduce, as a sum over the keys lo..hi, split in halves
RECURSIVE sumOver(_, _, _)
sumOver(obj, lo, hi) ==
    IF lo > hi THEN 0
    ELSE IF lo = hi THEN (IF lo \in DOMAIN obj THEN obj[lo] ELSE 0)
    ELSE sumOver(obj, lo, (lo + hi) \div 2) + sumOver(obj, (lo + hi) \div 2 + 1, hi)

sum(obj) ==
    IF DOMAIN obj = {} THEN 0
    ELSE sumOver(obj,
                 CHOOSE x \in DOMAIN obj : \A y \in DOMAIN obj : x <= y,
                 CHOOSE x \in DOMAIN obj : \A y \in DOMAIN obj : y <= x)

----------------------------------------------------------------------------
(* computeLevels *)

\* Object.values(values).sort((a, b) => a - b), 1-based: the i-th smallest value
sortAsc(values) ==
    [i \in 1..Cardinality(DOMAIN values) |->
        CHOOSE v \in {values[k] : k \in DOMAIN values} :
            /\ Cardinality({k \in DOMAIN values : values[k] < v}) < i
            /\ i <= Cardinality({k \in DOMAIN values : values[k] <= v})]

\* Math.round in place of Math.floor
qRound(arr, length, pct) == arr[((length - 1) * pct + 50) \div 100 + 1]

\* q = (p) => arr[Math.floor((arr.length - 1) * p)], p = pct / 100, length = arr.length
q(arr, length, pct) == arr[((length - 1) * pct) \div 100 + 1]

\* the first test without its `v > 0`
levelOfNoZeroGuard(v, q1, q2, q3) ==
    LET l1 == IF v <= q1 THEN 1 ELSE 0
        l2 == IF v > q1 /\ v <= q2 THEN 2 ELSE l1
        l3 == IF v > q2 /\ v <= q3 THEN 3 ELSE l2
    IN IF v > q3 THEN 4 ELSE l3

levelOf(v, q1, q2, q3) ==
    LET l1 == IF v > 0 /\ v <= q1 THEN 1 ELSE 0
        l2 == IF v > q1 /\ v <= q2 THEN 2 ELSE l1
        l3 == IF v > q2 /\ v <= q3 THEN 3 ELSE l2
    IN IF v > q3 THEN 4 ELSE l3

\* the for loop over Object.entries(values), with the thresholds qs = <<q1, q2, q3>>
levelsWith(values, qs) ==
    [k \in DOMAIN values |-> levelOf(values[k], qs[1], qs[2], qs[3])]

\* q1, q2, q3 are computed once, bound to qs, before the loop; of an empty
\* object the thresholds are undefined and the loop assigns nothing
computeLevels(values) ==
    IF DOMAIN values = {} THEN values
    ELSE LET arr == sortAsc(values)
             length == Cardinality(DOMAIN values)
         IN CHOOSE lv \in { levelsWith(values, qs) :
                  qs \in {<<q(arr, length, 25), q(arr, length, 50), q(arr, length, 75)>>} } : TRUE

----------------------------------------------------------------------------
(* renderSVG *)

palette == <<"#ebedf0", "#c6e48b", "#7bc96f", "#239a3b", "#196127">>

\* m[key] ?? 0
lookup(m, key) == IF key \in DOMAIN m THEN m[key] ELSE 0

\* Math.ceil(a / b), b > 0
ceilDiv(a, b) == -((-a) \div b)

\* start: fromDate shifted back by its getUTCDay() days
gridStart(z, from) == setDate(z, from, -getUTCDay(from))

\* end: today shifted forward by 6 - getUTCDay() days
gridEnd(z, tdy) == setDate(z, tdy, 6 - getUTCDay(tdy))

gridWeeks(z, from, tdy) ==
    ceilDiv(gridEnd(z, tdy) - gridStart(z, from), HoursPerDay * 7) + 1

\* one <rect>: the cell of week w, day d, dated by the cursor
rect(v, lv, counts, cursor, w, d) ==
    LET key == iso(cursor)
        lvl == lookup(lv, key)
        cnt == lookup(counts, key)
    IN [x |-> gap + w * (cell + gap),
        y |-> (IF v = "totals" THEN headerH ELSE 0) + gap + d * (cell + gap),
        fill |-> palette[lvl + 1],
        key |-> key,
        title |-> IF v = "totals"
                  THEN [n |-> cnt, unit |-> IF cnt = 1 THEN "contribution" ELSE "contributions"]
                  ELSE [n |-> lvl, unit |-> ""]]

\* one pass of the inner loop body on the loops' state [cursor, i, rects]:
\* cell i is week w = i \div 7, day d = i % 7; the loops end at w = weeks
rectStep(z, v, lv, counts, weeks, s) ==
    IF s.i \div 7 < weeks
    THEN [cursor |-> setDate(z, s.cursor, 1),
          i |-> s.i + 1,
          rects |-> Append(s.rects, rect(v, lv, counts, s.cursor, s.i \div 7, s.i % 7))]
    ELSE s

\* n passes of the loop body
RECURSIVE rectsRun(_, _, _, _, _, _, _)
rectsRun(z, v, lv, counts, weeks, s, n) ==
    IF n = 0 \/ s.i \div 7 >= weeks THEN s
    ELSE IF n = 1 THEN rectStep(z, v, lv, counts, weeks, s)
    ELSE CHOOSE r \in { rectsRun(z, v, lv, counts, weeks, half, n - n \div 2) :
                           half \in {rectsRun(z, v, lv, counts, weeks, s, n \div 2)} } : TRUE

renderSVG(z, v, from, tdy, lv, counts, tot) ==
    LET weeks == gridWeeks(z, from, tdy)
    IN [width |-> weeks * (cell + gap) + gap,
        height |-> (IF v = "totals" THEN headerH ELSE 0) + 7 * (cell + gap) + gap,
        rects |-> rectsRun(z, v, lv, counts, weeks,
                           [cursor |-> gridStart(z, from), i |-> 0, rects |-> <<>>],
                           weeks * 7).rects,
        label |-> IF v = "totals" THEN tot ELSE [total |-> 0, gh |-> 0, gl |-> 0],
        dateRange |-> IF v = "totals" THEN <<iso(from), iso(tdy)>> ELSE <<>>]

NoSvg == [width |-> 0, height |-> 0, rects |-> <<>>,
          label |-> [total |-> 0, gh |-> 0, gl |-> 0], dateRange |-> <<>>]

----------------------------------------------------------------------------
(* The fetchers *)

NoError == [name |-> "", status |-> 0]

Idle == [state |-> "idle", status |-> 0, error |-> NoError, result |-> <<>>]

HttpStatuses == {200, 403, 500}

\* res.ok without its upper bound
okNoUpperBound(status) == 200 <= status

\* res.ok
ok(status) == 200 <= status /\ status <= 299

\* GitHub's answer: the body res.json() parses (or rejects, parses = FALSE), with
\* json.data.user...contributionCalendar.weeks, each week its contributionDays
GhBodies(from, tdy) ==
    { [parses |-> FALSE, weeks |-> <<>>],
      [parses |-> TRUE, weeks |-> <<>>],
      [parses |-> TRUE,
       weeks |-> << << [date |-> iso(tdy) - 1, contributionCount |-> 1],
                       [date |-> iso(tdy), contributionCount |-> 2] >> >>],
      [parses |-> TRUE,
       weeks |-> << << [date |-> iso(tdy) - 400, contributionCount |-> 4] >>,
                    << [date |-> iso(from), contributionCount |-> 3],
                       [date |-> iso(from), contributionCount |-> 1] >> >>] }

\* GitLab's answer: the body res.json() parses (or rejects), the calendar.json object
GlBodies(from, tdy) ==
    { [parses |-> FALSE, json |-> <<>>],
      [parses |-> TRUE, json |-> <<>>],
      [parses |-> TRUE, json |-> (iso(tdy) :> 3)],
      [parses |-> TRUE, json |-> (iso(tdy) - 400 :> 5) @@ (iso(tdy) - 1 :> 1)] }

\* out[d.date] = (out[d.date] || 0) + (d.contributionCount || 0), over one week's days
RECURSIVE flattenDays(_, _)
flattenDays(out, days) ==
    IF days = <<>> THEN out
    ELSE LET d == Head(days)
         IN flattenDays((d.date :> (lookup(out, d.date) + d.contributionCount)) @@ out,
                        Tail(days))

RECURSIVE flattenWeeks(_, _)
flattenWeeks(out, weeks) ==
    IF weeks = <<>> THEN out
    ELSE flattenWeeks(flattenDays(out, Head(weeks)), Tail(weeks))

\* a join that fulfils as soon as either fetch has fulfilled
allAfterEither(ghNext, glNext) ==
    IF all.state # "pending" THEN all
    ELSE IF ghNext.state = "rejected" THEN [state |-> "rejected", reason |-> ghNext.error]
    ELSE IF glNext.state = "rejected" THEN [state |-> "rejected", reason |-> glNext.error]
    ELSE IF ghNext.state = "fulfilled" \/ glNext.state = "fulfilled"
         THEN [state |-> "fulfilled", reason |-> NoError]
    ELSE all

\* Promise.all: rejects with the first rejection, fulfils once both have fulfilled
allAfter(ghNext, glNext) ==
    IF all.state # "pending" THEN all
    ELSE IF ghNext.state = "rejected" THEN [state |-> "rejected", reason |-> ghNext.error]
    ELSE IF glNext.state = "rejected" THEN [state |-> "rejected", reason |-> glNext.error]
    ELSE IF ghNext.state = "fulfilled" /\ glNext.state = "fulfilled"
         THEN [state |-> "fulfilled", reason |-> NoError]
    ELSE all

\* a fetcher's continuation runs only while the main script is suspended at the
\* await and no continuation of the driver is queued ahead of it
Suspended == pc = "awaiting" /\ all.state = "pending"

----------------------------------------------------------------------------
(* The main script *)

\* lines 12-26: the config checks, then today and fromDate
ConfigCheck ==
    /\ pc = "config"
    /\ IF Falsy(GH_USERNAME) \/ Falsy(GITLAB_USERNAME)
       THEN /\ stderr' = Append(stderr, [name |-> "Missing GH_USERNAME or GITLAB_USERNAME env vars.", status |-> 0])
            /\ exitCode' = 1
            /\ pc' = "exited"
            /\ UNCHANGED fromDate
       ELSE IF Falsy(GH_TOKEN)
       THEN /\ stderr' = Append(stderr, [name |-> "Missing GitHub token (GH_PAT / GITHUB_TOKEN). Aborting to avoid 403.", status |-> 0])
            /\ exitCode' = 1
            /\ pc' = "exited"
            /\ UNCHANGED fromDate
       ELSE /\ fromDate' = setDate(zone, today, -WindowDays)
            /\ pc' = "driver"
            /\ UNCHANGED <<stderr, exitCode>>
    /\ UNCHANGED <<variant, env, zone, today, gh, gl, all, base, levels, totals, requests, file>>

\* const base = dateRangeMap(fromDate, today)
BuildBase ==
    /\ pc = "driver"
    /\ base' = dateRangeMap(zone, fromDate, today)
    /\ pc' = "callGitHub"
    /\ UNCHANGED <<variant, env, zone, today, fromDate, gh, gl, all, levels, totals,
                   requests, file, stderr, exitCode>>

\* fetchGitHubCalendar(GH_USERNAME), up to its await fetch(...)
CallFetchGitHub ==
    /\ pc = "callGitHub"
    /\ requests' = Append(requests,
           [url |-> "https://api.github.com/graphql", method |-> "POST",
            authorization |-> GH_TOKEN, user |-> GH_USERNAME,
            from |-> fromDate, to |-> today])
    /\ gh' = [gh EXCEPT !.state = "requested"]
    /\ pc' = "callGitLab"
    /\ UNCHANGED <<variant, env, zone, today, fromDate, gl, all, base, levels, totals,
                   file, stderr, exitCode>>

\* fetchGitLabCalendar(GITLAB_USERNAME), up to its await fetch(url); then the
\* driver awaits Promise.all
CallFetchGitLab ==
    /\ pc = "callGitLab"
    /\ requests' = Append(requests,
           [url |-> "https://gitlab.com/users/:username/calendar.json", method |-> "GET",
            authorization |-> "", user |-> GITLAB_USERNAME, from |-> 0, to |-> 0])
    /\ gl' = [gl EXCEPT !.state = "requested"]
    /\ pc' = "awaiting"
    /\ UNCHANGED <<variant, env, zone, today, fromDate, gh, all, base, levels, totals,
                   file, stderr, exitCode>>

fetchUnchanged ==
    UNCHANGED <<variant, env, zone, today, fromDate, pc, base, levels, totals, requests,
                file, stderr, exitCode>>

\* const res = await fetch(...) of fetchGitHubCalendar resumes with a response
GhResponse ==
    /\ Suspended
    /\ gh.state = "requested"
    /\ \E status \in HttpStatuses :
          gh' = [gh EXCEPT !.state = IF ok(status) THEN "readingJson" ELSE "readingText",
                           !.status = status]
    /\ UNCHANGED <<gl, all>>
    /\ fetchUnchanged

\* if (!res.ok): await res.text(), then throw
GhThrow ==
    /\ Suspended
    /\ gh.state = "readingText"
    /\ gh' = [gh EXCEPT !.state = "rejected",
                        !.error = [name |-> "GitHub GraphQL error", status |-> gh.status]]
    /\ all' = allAfter(gh', gl)
    /\ UNCHANGED gl
    /\ fetchUnchanged

\* await res.json(), then the flattening loops
GhJson ==
    /\ Suspended
    /\ gh.state = "readingJson"
    /\ \E body \in GhBodies(fromDate, today) :
          gh' = IF ~body.parses
                THEN [gh EXCEPT !.state = "rejected",
                                !.error = [name |-> "SyntaxError", status |-> 0]]
                ELSE [gh EXCEPT !.state = "fulfilled",
                                !.result = flattenWeeks(<<>>, body.weeks)]
    /\ all' = allAfter(gh', gl)
    /\ UNCHANGED gl
    /\ fetchUnchanged

GlResponse ==
    /\ Suspended
    /\ gl.state = "requested"
    /\ \E status \in HttpStatuses :
          gl' = [gl EXCEPT !.state = IF ok(status) THEN "readingJson" ELSE "readingText",
                           !.status = status]
    /\ UNCHANGED <<gh, all>>
    /\ fetchUnchanged

GlThrow ==
    /\ Suspended
    /\ gl.state = "readingText"
    /\ gl' = [gl EXCEPT !.state = "rejected",
                        !.error = [name |-> "GitLab calendar error", status |-> gl.status]]
    /\ all' = allAfter(gh, gl')
    /\ UNCHANGED gh
    /\ fetchUnchanged

\* return json || {}
GlJson ==
    /\ Suspended
    /\ gl.state = "readingJson"
    /\ \E body \in GlBodies(fromDate, today) :
          gl' = IF ~body.parses
                THEN [gl EXCEPT !.state = "rejected",
                                !.error = [name |-> "SyntaxError", status |-> 0]]
                ELSE [gl EXCEPT !.state = "fulfilled", !.result = body.json]
    /\ all' = allAfter(gh, gl')
    /\ UNCHANGED gh
    /\ fetchUnchanged

\* the driver resumes after the await: merge, classify, render, write
DriverResume ==
    /\ pc = "awaiting"
    /\ all.state = "fulfilled"
    /\ base' = mergeCalendars(base, gh.result, gl.result)
    /\ levels' = computeLevels(base')
    /\ totals' = IF variant = "totals"
                 THEN [total |-> sum(base'), gh |-> sum(gh.result), gl |-> sum(gl.result)]
                 ELSE totals
    /\ file' = [state |-> "written",
                svg |-> renderSVG(zone, variant, fromDate, today, levels', base', totals')]
    /\ exitCode' = 0
    /\ pc' = "done"
    /\ UNCHANGED <<variant, env, zone, today, fromDate, gh, gl, all, requests, stderr>>

\* catch (e): console.error(e); process.exit(1)
DriverCatch ==
    /\ pc = "awaiting"
    /\ all.state = "rejected"
    /\ stderr' = Append(stderr, all.reason)
    /\ exitCode' = 1
    /\ pc' = "exited"
    /\ UNCHANGED <<variant, env, zone, today, fromDate, gh, gl, all, base, levels, totals,
                   requests, file>>

\* process.env at startup; the totals variant reads no username from it
Envs ==
    [GH_USERNAME : {Unset, "octocat"}, GH_PAT : {Unset, "", "pat"},
     GITHUB_TOKEN : {Unset, "", "token"}, GITLAB_USERNAME : {Unset, "tanuki"}]

\* every environment at one clock and zone, and every clock and zone in one
\* environment that passes the config checks
Init ==
    /\ variant \in {"env", "totals"}
    /\ env \in Envs
    /\ variant = "totals" => env.GH_USERNAME = Unset /\ env.GITLAB_USERNAME = Unset
    /\ zone \in Zones
    /\ today \in Todays
    /\ \/ zone = "UTC" /\ today = 20763 * HoursPerDay
       \/ /\ env.GH_PAT = "pat" /\ env.GITHUB_TOKEN = Unset
          /\ variant = "env" => env.GH_USERNAME = "octocat" /\ env.GITLAB_USERNAME = "tanuki"
    /\ fromDate = today
    /\ pc = "config"
    /\ gh = Idle
    /\ gl = Idle
    /\ all = [state |-> "pending", reason |-> NoError]
    /\ base = <<>>
    /\ levels = <<>>
    /\ totals = [total |-> 0, gh |-> 0, gl |-> 0]
    /\ requests = <<>>
    /\ file = [state |-> "stale", svg |-> NoSvg]
    /\ stderr = <<>>
    /\ exitCode = -1

Next ==
    \/ ConfigCheck
    \/ BuildBase
    \/ CallFetchGitHub
    \/ CallFetchGitLab
    \/ GhResponse
    \/ GhThrow
    \/ GhJson
    \/ GlResponse
    \/ GlThrow
    \/ GlJson
    \/ DriverResume
    \/ DriverCatch

Spec == Init /\ [][Next]_vars

FairSpec == Spec /\ WF_vars(GhThrow) /\ WF_vars(GlThrow) /\ WF_vars(DriverCatch)

----------------------------------------------------------------------------
(* The functions on their own: each specification draws a function's inputs *)
(* and applies it once.                                                     *)

Untouched ==
    /\ gh = Idle
    /\ gl = Idle
    /\ all = [state |-> "pending", reason |-> NoError]
    /\ requests = <<>>
    /\ file = [state |-> "stale", svg |-> NoSvg]
    /\ stderr = <<>>
    /\ exitCode = -1
    /\ env = [GH_USERNAME |-> Unset, GH_PAT |-> "pat", GITHUB_TOKEN |-> Unset,
              GITLAB_USERNAME |-> Unset]

\* every mapping from some of the dates to the counts
Mappings(dates, counts) == UNION { [ks -> counts] : ks \in SUBSET dates }

\* mergeCalendars(base, ghMap, glMap) and the totals: a zeroed base over the
\* dates fromDate..today, which are 1..1 or 1..2, fetched mappings over the dates 0..2
InitMerge ==
    /\ variant = "totals"
    /\ zone = "UTC"
    /\ today \in {1 * HoursPerDay, 2 * HoursPerDay}
    /\ fromDate = 1 * HoursPerDay
    /\ pc = "mergeCalendars"
    /\ base = [k \in iso(fromDate)..iso(today) |-> 0]
    /\ gh \in { [Idle EXCEPT !.state = "fulfilled", !.result = m] :
                  m \in Mappings(0..2, 0..MaxFetched) }
    /\ gl \in { [Idle EXCEPT !.state = "fulfilled", !.result = m] :
                  m \in Mappings(0..2, 0..MaxFetched) }
    /\ all = [state |-> "fulfilled", reason |-> NoError]
    /\ levels = <<>>
    /\ totals = [total |-> 0, gh |-> 0, gl |-> 0]
    /\ requests = <<>>
    /\ file = [state |-> "stale", svg |-> NoSvg]
    /\ stderr = <<>>
    /\ exitCode = -1
    /\ env = [GH_USERNAME |-> Unset, GH_PAT |-> "pat", GITHUB_TOKEN |-> Unset,
              GITLAB_USERNAME |-> Unset]

MergeCall ==
    /\ pc = "mergeCalendars"
    /\ base' = mergeCalendars(base, gh.result, gl.result)
    /\ totals' = [total |-> sum(base'), gh |-> sum(gh.result), gl |-> sum(gl.result)]
    /\ pc' = "merged"
    /\ UNCHANGED <<variant, env, zone, today, fromDate, gh, gl, all, levels, requests,
                   file, stderr, exitCode>>

SpecMerge == InitMerge /\ [][MergeCall]_vars

\* computeLevels(values): values over 1..n, n up to MaxKeys, counts 0..MaxCount
InitLevels ==
    /\ variant = "env"
    /\ zone = "UTC"
    /\ today = MaxKeys * HoursPerDay
    /\ fromDate = 1 * HoursPerDay
    /\ pc = "computeLevels"
    /\ base \in UNION { [1..n -> 0..MaxCount] : n \in 1..MaxKeys }
    /\ levels = <<>>
    /\ totals = [total |-> 0, gh |-> 0, gl |-> 0]
    /\ Untouched

LevelsCall ==
    /\ pc = "computeLevels"
    /\ levels' = computeLevels(base)
    /\ pc' = "levelled"
    /\ UNCHANGED <<variant, env, zone, today, fromDate, gh, gl, all, base, totals,
                   requests, file, stderr, exitCode>>

SpecLevels == InitLevels /\ [][LevelsCall]_vars

\* dateRangeMap(from, to): any two Dates of 2026-03-07 (UTC day 20519) and the
\* days after it, in any zone
RangeDates ==
    { day * HoursPerDay + h : day \in 20519..(20519 + MaxRangeDays), h \in {0, 7, 15, 23} }

InitRange ==
    /\ variant = "env"
    /\ zone \in Zones
    /\ fromDate \in RangeDates
    /\ today \in RangeDates
    /\ pc = "dateRangeMap"
    /\ base = <<>>
    /\ levels = <<>>
    /\ totals = [total |-> 0, gh |-> 0, gl |-> 0]
    /\ Untouched

RangeCall ==
    /\ pc = "dateRangeMap"
    /\ base' = dateRangeMap(zone, fromDate, today)
    /\ pc' = "ranged"
    /\ UNCHANGED <<variant, env, zone, today, fromDate, gh, gl, all, levels, totals,
                   requests, file, stderr, exitCode>>

SpecRange == InitRange /\ [][RangeCall]_vars

----------------------------------------------------------------------------
(* Properties *)

\* a success HTTP status
Success(status) == status \in 200..299

\* a fetch has received a non-success HTTP response
NonOk(f) == f.status # 0 /\ ~Success(f.status)

\* the run has ended
Ended == pc \in {"done", "exited"}

C1_Safety ==
    /\ NonOk(gh) \/ NonOk(gl) =>
         /\ file = [state |-> "stale", svg |-> NoSvg]
         /\ exitCode \in {-1, 1}
         /\ Ended => exitCode = 1 /\ pc = "exited"
    /\ gh.state = "rejected" /\ NonOk(gh) =>
         gh.error = [name |-> "GitHub GraphQL error", status |-> gh.status]
    /\ gl.state = "rejected" /\ NonOk(gl) =>
         gl.error = [name |-> "GitLab calendar error", status |-> gl.status]
    /\ \A i \in 1..Len(stderr) :
         /\ stderr[i].name = "GitHub GraphQL error" => stderr[i].status = gh.status /\ NonOk(gh)
         /\ stderr[i].name = "GitLab calendar error" => stderr[i].status = gl.status /\ NonOk(gl)
    /\ file.state = "written" => Success(gh.status) /\ Success(gl.status)

\* C1: in every interleaving of the two fetches' completions, once either fetch
\* has received a non-success HTTP response the output file is never written or
\* modified, the error the fetch raises carries the HTTP status code, and the
\* run ends with exit status 1.
C1_FailFast ==
    /\ []C1_Safety
    /\ [][NonOk(gh) \/ NonOk(gl) \/ NonOk(gh') \/ NonOk(gl') => file' = file]_vars
    /\ (NonOk(gh) \/ NonOk(gl)) ~> (pc = "exited" /\ exitCode = 1)

\* GitHub answers 403 while GitLab's calendar was fetched; the run has exited
\* with status 1 and logged the 403
C1_Witness ==
    /\ pc = "exited"
    /\ exitCode = 1
    /\ gh.status = 403
    /\ gl.state = "fulfilled"
    /\ stderr = <<[name |-> "GitHub GraphQL error", status |-> 403]>>
    /\ file.state = "stale"

\* the zeroed base the merge started from holds every date of the merged base
ZeroedBase(b) == \A d \in DOMAIN b : b[d] = 0

\* m without the entries whose date is not in dates
Restrict(m, dates) == [d \in DOMAIN m \cap dates |-> m[d]]

\* C2: mergeCalendars(base, gh, gl) with a zeroed base: every date of base gets
\* gh[date] (or 0) plus gl[date] (or 0), the key set of the result is the key
\* set of base, and the entries of gh and gl dated outside base change nothing.
C2_MergeSums ==
    [][pc = "mergeCalendars" /\ ZeroedBase(base) =>
         /\ DOMAIN base' = DOMAIN base
         /\ \A d \in DOMAIN base : base'[d] = lookup(gh.result, d) + lookup(gl.result, d)
         /\ base' = mergeCalendars(base, Restrict(gh.result, DOMAIN base),
                                   Restrict(gl.result, DOMAIN base))]_vars

\* merged: date 1 is in both fetched mappings, date 0 (out of range) in GitHub's
C2_Witness ==
    /\ pc = "merged"
    /\ DOMAIN base = {1}
    /\ gh.result = (0 :> 2) @@ (1 :> 1)
    /\ gl.result = (1 :> 2) @@ (2 :> 1)
    /\ base[1] = 3

\* the 365 consecutive calendar dates ending at today's date
Window == (iso(today) - WindowDays)..iso(today)

\* the driver has built the base calendar
BaseBuilt == pc \in {"callGitHub", "callGitLab", "awaiting", "done"}

\* C3: the Canonical Calendar built by dateRangeMap(fromDate, today) has as its
\* key set exactly the 365 consecutive calendar dates ending at today's date.
C3_CanonicalWindow == BaseBuilt => DOMAIN base = Window

\* C4: for every mapping of dates to non-negative counts, every level that
\* computeLevels assigns is in 0..4, and a date's level is 0 exactly if its
\* count is 0.
C4_LevelZeroIffCountZero ==
    pc = "levelled" =>
        /\ DOMAIN levels = DOMAIN base
        /\ \A k \in DOMAIN levels :
             /\ levels[k] \in 0..4
             /\ levels[k] = 0 <=> base[k] = 0

\* three zero days and one active day: the thresholds coincide at 0
C4_Witness ==
    /\ pc = "levelled"
    /\ base = <<0, 0, 3, 0>>
    /\ levels = <<0, 0, 4, 0>>

\* the element at index floor((n - 1) * num / den) of the ascending-sorted counts
RefQuantile(values, num, den) ==
    LET idx == ((Cardinality(DOMAIN values) - 1) * num) \div den
    IN CHOOSE v \in {values[k] : k \in DOMAIN values} :
         /\ Cardinality({k \in DOMAIN values : values[k] < v}) <= idx
         /\ idx < Cardinality({k \in DOMAIN values : values[k] <= v})

\* the reference classifier
RefLevel(v, q1, q2, q3) ==
    IF v = 0 THEN 0
    ELSE IF v <= q1 THEN 1
    ELSE IF v <= q2 THEN 2
    ELSE IF v <= q3 THEN 3
    ELSE 4

\* C5: computeLevels agrees with the reference classifier: with q1, q2, q3 the
\* elements at index floor((n-1)*p) of the sorted counts for p = 1/4, 1/2, 3/4,
\* a count v gets 0 if v = 0, else 1 if v <= q1, 2 if q1 < v <= q2, 3 if
\* q2 < v <= q3, 4 if v > q3.
C5_MatchesReference ==
    pc = "levelled" =>
        levels = [k \in DOMAIN base |->
                    RefLevel(base[k], RefQuantile(base, 1, 4), RefQuantile(base, 1, 2),
                             RefQuantile(base, 3, 4))]

\* counts 1, 2, 3, 4: the thresholds are 1, 2, 3 and each count at a threshold
\* gets the lower level
C5_Witness ==
    /\ pc = "levelled"
    /\ base = <<2, 1, 4, 3>>
    /\ levels = <<2, 1, 4, 3>>

\* the rendered cells
Cells == file.svg.rects

\* C6: the cells renderSVG emits are dated consecutively, one day apart; the
\* first is the Sunday on or before the window's start date, the last is the
\* Saturday on or after today, and there are weeks * 7 of them.
C6_GridSundayToSaturday ==
    file.state = "written" =>
        /\ Len(Cells) = gridWeeks(zone, fromDate, today) * 7
        /\ \A i \in 1..(Len(Cells) - 1) : Cells[i + 1].key = Cells[i].key + 1
        /\ Cells[1].key = iso(fromDate) - getUTCDay(fromDate)
        /\ Cells[Len(Cells)].key = iso(today) + (6 - getUTCDay(today))

\* a required username or the access token is missing
ConfigMissing ==
    \/ variant = "env" /\ (Falsy(env.GH_USERNAME) \/ Falsy(env.GITLAB_USERNAME))
    \/ Falsy(env.GH_PAT) /\ Falsy(env.GITHUB_TOKEN)

\* C7: if a required username or the access token (GH_PAT, else GITHUB_TOKEN,
\* the first non-empty wins) is missing at startup, the process exits with
\* status 1 before any network request is issued and without writing the file.
C7_ConfigErrorBeforeIO ==
    /\ ConfigMissing =>
         /\ requests = <<>>
         /\ file = [state |-> "stale", svg |-> NoSvg]
         /\ pc \in {"config", "exited"}
         /\ pc = "exited" => exitCode = 1 /\ Len(stderr) = 1
    /\ ~ConfigMissing => pc # "exited" \/ requests # <<>>
    /\ \A i \in 1..Len(requests) :
         requests[i].method = "POST" =>
             requests[i].authorization =
                 (IF Falsy(env.GH_PAT) THEN env.GITHUB_TOKEN ELSE env.GH_PAT)

\* both usernames are set, GH_PAT is empty and GITHUB_TOKEN unset: exited with 1
C7_Witness ==
    /\ pc = "exited"
    /\ exitCode = 1
    /\ variant = "env"
    /\ env = [GH_USERNAME |-> "octocat", GH_PAT |-> "", GITHUB_TOKEN |-> Unset,
              GITLAB_USERNAME |-> "tanuki"]
    /\ requests = <<>>

\* a fetcher's continuation has run
Resumed(f) == f.state \notin {"idle", "requested"}

C8_Order ==
    /\ Resumed(gh) \/ Resumed(gl) \/ pc \in {"awaiting", "done"} =>
         /\ gh.state # "idle" /\ gl.state # "idle"
         /\ Len(requests) = 2
    /\ pc = "done" \/ file.state = "written" =>
         /\ pc = "done"
         /\ gh.state = "fulfilled" /\ Success(gh.status)
         /\ gl.state = "fulfilled" /\ Success(gl.status)

\* C8: both fetches are started before either is awaited; in every interleaving
\* the merge (and classify, render and the single write) begins only after both
\* fetches have completed successfully; a step of one fetch changes neither the
\* other fetch's result nor the base calendar.
C8_JoinThenMerge ==
    /\ []C8_Order
    /\ [][/\ gh' # gh => gl' = gl /\ base' = base /\ file' = file
          /\ gl' # gl => gh' = gh /\ base' = base /\ file' = file
          /\ file' # file => file.state = "stale" /\ pc' = "done"]_vars

\* GitLab's calendar arrived before GitHub's, both were merged and written
C8_Witness ==
    /\ pc = "done"
    /\ file.state = "written"
    /\ gh.result = (iso(today) - 1 :> 1) @@ (iso(today) :> 2)
    /\ gl.result = (iso(today) :> 3)
    /\ base[iso(today)] = 5

\* C9: for any from and to with from's calendar date on or before to's, whatever
\* their times of day, dateRangeMap(from, to) holds every calendar date from
\* from's through to's, the end date included, each at 0.
C9_RangeByCalendarDate ==
    pc = "ranged" /\ iso(fromDate) <= iso(today) =>
        /\ DOMAIN base = iso(fromDate)..iso(today)
        /\ ZeroedBase(base)

\* a fetched entry with a non-zero count dated outside the Canonical Calendar
DroppedEntry ==
    \/ \E d \in DOMAIN gh.result \ (iso(fromDate)..iso(today)) : gh.result[d] # 0
    \/ \E d \in DOMAIN gl.result \ (iso(fromDate)..iso(today)) : gl.result[d] # 0

\* C10: in the totals variant the overall total sums the merged in-range counts
\* and each per-source total sums every fetched entry: total <= gh + gl, with
\* equality exactly when no fetched entry with a non-zero count is dated
\* outside the Canonical Calendar.
C10_TotalsBound ==
    pc = "merged" =>
        /\ totals.total <= totals.gh + totals.gl
        /\ totals.total = totals.gh + totals.gl <=> ~DroppedEntry

\* GitHub's mapping has an out-of-range entry: the total falls short of gh + gl
C10_Witness ==
    /\ pc = "merged"
    /\ DOMAIN base = {1, 2}
    /\ gh.result = (0 :> 2) @@ (1 :> 1)
    /\ gl.result = (2 :> 2)
    /\ totals = [total |-> 3, gh |-> 3, gl |-> 2]

====
